---------------------------- MODULE Spec2Model ----------------------------
(***************************************************************************)
(* rusty-calculator: tokenizer (token.rs), recursive-descent parser and    *)
(* evaluator (parser.rs) and the entry point calculate (main.rs).          *)
(*                                                                         *)
(* The input line is a sequence of one-character strings.  The parser is   *)
(* a machine with an explicit call stack: one action per code segment of   *)
(* parse_expr / parse_term / parse_factor between two calls.  The          *)
(* tokenizer pull and the evaluator are pure functions of their arguments  *)
(* and are operators.  The integer type is a two's-complement signed       *)
(* integer of Bits bits (i64 in the source, narrowed so that the range     *)
(* limits are within reach of short inputs).                               *)
(***************************************************************************)
EXTENDS Integers, Sequences, FiniteSets, TLC

\* ------------------------------------------------------------- bounds
\* Width of the signed integer type standing for i64.
Bits == 9
\* Every line over Alphabet of at most this length is an input.
MaxLen == 3
\* Every expression tree of at most this many nodes is printed as an input.
MaxNodes == 5

RECURSIVE Pow2(_)
Pow2(n) == IF n = 0 THEN 1 ELSE 2 * Pow2(n - 1)

\* i64::MAX and i64::MIN at the modelled width.
MaxInt == Pow2(Bits - 1) - 1
MinInt == -Pow2(Bits - 1)
InRange(v) == MinInt <= v /\ v <= MaxInt

\* ------------------------------------------------------------- tokens
DigitChars == {"0", "1", "2", "3", "4", "5", "6", "7", "8", "9"}

\* char::to_digit as used by the integer parser.
DigitValue(c) ==
    CASE c = "0" -> 0 [] c = "1" -> 1 [] c = "2" -> 2 [] c = "3" -> 3
      [] c = "4" -> 4 [] c = "5" -> 5 [] c = "6" -> 6 [] c = "7" -> 7
      [] c = "8" -> 8 [] c = "9" -> 9

\* enum Token; every variant has the same shape, n is used by Int only.
Tok(t) == [t |-> t, n |-> 0]
IntTok(n) == [t |-> "Int", n |-> n]
NoToken == Tok("None")

\* anyhow::Result<i64> as returned by eval and calculate.
Ok(v) == [ok |-> TRUE, val |-> v, kind |-> "None", arg |-> ""]
Err(kind, arg) == [ok |-> FALSE, val |-> 0, kind |-> kind, arg |-> arg]
NoResult == [ok |-> FALSE, val |-> 0, kind |-> "Pending", arg |-> ""]

\* The peek loop of next_token: the index of the last character of the
\* digit run that starts at index i.
RECURSIVE RunEnd(_, _)
RunEnd(s, i) ==
    IF i < Len(s) /\ s[i + 1] \in DigitChars THEN RunEnd(s, i + 1) ELSE i

\* digits.parse::<i64>(): accumulate from the left with a checked multiply
\* and a checked add per digit; -1 stands for the PosOverflow error.
RECURSIVE ParseAcc(_, _, _)
ParseAcc(s, i, acc) ==
    IF i > Len(s) THEN acc
    ELSE LET m == acc * 10
             a == m + DigitValue(s[i])
         IN  IF m > MaxInt \/ a > MaxInt THEN -1 ELSE ParseAcc(s, i + 1, a)

\* Mutant: the digits parsed as an unsigned integer of the same width.
RECURSIVE ParseAccUnsigned(_, _, _)
ParseAccUnsigned(s, i, acc) ==
    IF i > Len(s) THEN acc
    ELSE LET a == acc * 10 + DigitValue(s[i])
         IN  IF a > 2 * MaxInt + 1 THEN -1 ELSE ParseAccUnsigned(s, i + 1, a)

ParseU64(digits) == ParseAccUnsigned(digits, 1, 0)

ParseI64(digits) == ParseAcc(digits, 1, 0)

\* The token of a single-character symbol.
SymbolToken(ch) ==
    CASE ch = "+" -> Tok("Plus")
      [] ch = "-" -> Tok("Minus")
      [] ch = "*" -> Tok("Asterisk")
      [] ch = "/" -> Tok("Slash")
      [] ch = "(" -> Tok("LeftParenthesis")
      [] ch = ")" -> Tok("RightParenthesis")

Symbols == {"+", "-", "*", "/", "(", ")"}

Pulled(tok, p) == [ok |-> TRUE, tok |-> tok, pos |-> p, kind |-> "None", arg |-> ""]
PullFailed(kind, arg, p) ==
    [ok |-> FALSE, tok |-> NoToken, pos |-> p, kind |-> kind, arg |-> arg]

\* Mutant: the space is not a known character.
SpaceUnexpected(s, p) == PullFailed("UnexpectedCharacter", " ", p + 1)

\* What next_token does with a space: it recurses and returns the next token.
RECURSIVE NextToken(_, _)
SkipSpace(s, p) == NextToken(s, p + 1)

\* TokenTranslator::next_token on the characters s with p of them consumed:
\* the token or the error, and the number of characters consumed afterwards.
NextToken(s, p) ==
    IF p >= Len(s) THEN Pulled(Tok("Eof"), p)
    ELSE LET ch == s[p + 1] IN
         CASE ch = " " -> SkipSpace(s, p)
           [] ch \in Symbols -> Pulled(SymbolToken(ch), p + 1)
           [] ch \in DigitChars ->
                LET q == RunEnd(s, p + 1)
                    num == ParseI64(SubSeq(s, p + 1, q))
                IN  IF num < 0 THEN PullFailed("NumberTooLarge", "", q)
                    ELSE Pulled(IntTok(num), q)
           [] OTHER -> PullFailed("UnexpectedCharacter", ch, p + 1)

\* ------------------------------------------------------------- evaluator
\* enum Expr.
IntE(n) == [k |-> "Int", n |-> n]
NegE(e) == [k |-> "Neg", e |-> e]
BinE(k, a, b) == [k |-> k, a |-> a, b |-> b]
NoExpr == [k |-> "Nil"]

BinKinds == {"Add", "Sub", "Mul", "Div"}

\* Option<i64> of the checked_* methods.
Some(v) == [some |-> TRUE, v |-> v]
None == [some |-> FALSE, v |-> 0]

Abs(v) == IF v < 0 THEN -v ELSE v

\* The quotient of Rust's integer division: rounded toward zero.
Quotient(a, b) ==
    IF (a < 0) = (b < 0) THEN Abs(a) \div Abs(b) ELSE -(Abs(a) \div Abs(b))

\* i64::checked_neg, checked_add, checked_sub, checked_mul, checked_div.
CheckedNeg(a) == IF a = MinInt THEN None ELSE Some(-a)
\* Mutant: wrapping_add.
WrappingAdd(a, b) ==
    Some(((a + b - MinInt) % Pow2(Bits)) + MinInt)
CheckedAdd(a, b) == IF InRange(a + b) THEN Some(a + b) ELSE None
CheckedSub(a, b) == IF InRange(a - b) THEN Some(a - b) ELSE None
CheckedMul(a, b) == IF InRange(a * b) THEN Some(a * b) ELSE None
CheckedDiv(a, b) ==
    IF b = 0 \/ (a = MinInt /\ b = -1) THEN None ELSE Some(Quotient(a, b))

\* Option::ok_or(anyhow!("Overflow on ...")).
OkOr(opt, what) == IF opt.some THEN Ok(opt.v) ELSE Err("Overflow", what)

RECURSIVE Eval(_)
\* Mutant: the dividend is evaluated before the divisor.
EvalDivDividendFirst(e) ==
    LET a == Eval(e.a) IN
    IF ~a.ok THEN a
    ELSE LET b == Eval(e.b) IN
         IF ~b.ok THEN b
         ELSE IF b.val = 0 THEN Err("DivisionByZero", "")
         ELSE OkOr(CheckedDiv(a.val, b.val), "division")

\* Mutant: the argument b is evaluated before the receiver a.
EvalArithArgumentFirst(e) ==
    LET b == Eval(e.b) IN
    IF ~b.ok THEN b
    ELSE LET a == Eval(e.a) IN
         IF ~a.ok THEN a
         ELSE CASE e.k = "Add" -> OkOr(CheckedAdd(a.val, b.val), "addition")
                [] e.k = "Sub" -> OkOr(CheckedSub(a.val, b.val), "substraction")
                [] e.k = "Mul" -> OkOr(CheckedMul(a.val, b.val), "multiplication")

\* The Div arm of Expr::eval: the divisor b is evaluated first.
EvalDiv(e) ==
    LET b == Eval(e.b) IN
    IF ~b.ok THEN b
    ELSE IF b.val = 0 THEN Err("DivisionByZero", "")
    ELSE LET a == Eval(e.a) IN
         IF ~a.ok THEN a ELSE OkOr(CheckedDiv(a.val, b.val), "division")

\* The Add, Sub and Mul arms: the receiver a is evaluated, then the argument b.
EvalArith(e) ==
    LET a == Eval(e.a) IN
    IF ~a.ok THEN a
    ELSE LET b == Eval(e.b) IN
         IF ~b.ok THEN b
         ELSE CASE e.k = "Add" -> OkOr(CheckedAdd(a.val, b.val), "addition")
                [] e.k = "Sub" -> OkOr(CheckedSub(a.val, b.val), "substraction")
                [] e.k = "Mul" -> OkOr(CheckedMul(a.val, b.val), "multiplication")

\* The Neg arm.
EvalNeg(e) ==
    LET v == Eval(e.e) IN
    IF ~v.ok THEN v ELSE OkOr(CheckedNeg(v.val), "negation")

\* Expr::eval.
Eval(e) ==
    CASE e.k = "Int" -> Ok(e.n)
      [] e.k = "Neg" -> EvalNeg(e)
      [] e.k = "Div" -> EvalDiv(e)
      [] e.k \in {"Add", "Sub", "Mul"} -> EvalArith(e)

\* ------------------------------------------------------------- state
VARIABLES
    input,          \* the argument of calculate
    pos,            \* translator.chars: the number of characters consumed
    current_token,  \* Parser::current_token
    stack,          \* the call stack of the parse_* functions, top last
    ret,            \* the Expr returned by the call that has just returned
    expr,           \* calculate's local expr
    pc,             \* calculate's position: "new", "parse", "eval", "done"
    result,         \* what calculate returned
    pulls,          \* the number of next_token calls made by this call
    steps,          \* the number of code segments run by this call
    tree,           \* the expression the input was printed from, if any
    prev            \* what calculate returned for the line this one respaces

vars == <<input, pos, current_token, stack, ret, expr, pc, result, pulls,
          steps, tree, prev>>

\* One activation of parse_expr, parse_term or parse_factor: its position,
\* its local node and its local operation.
Frame(fn, at) == [fn |-> fn, at |-> at, node |-> NoExpr, op |-> NoToken]

Top == stack[Len(stack)]
Running(fn, at) ==
    pc = "parse" /\ stack # <<>> /\ Top.fn = fn /\ Top.at = at
Pop == SubSeq(stack, 1, Len(stack) - 1)
\* The stack with the top frame replaced by f.
Replace(f) == Append(Pop, f)
\* The stack with the top frame replaced by f and a call of fn on top of it.
Call(f, fn) == Append(Replace(f), Frame(fn, "start"))

\* An error leaves calculate through the ? operators.
Fail(e) ==
    /\ pc' = "done"
    /\ result' = e
    /\ stack' = <<>>
    /\ ret' = NoExpr

\* Parser::advance followed by the rest of the code segment: on success the
\* current token is replaced and the segment goes on with the stack and the
\* returned value given; on failure the error propagates.
Advance(nextStack, nextRet) ==
    LET r == NextToken(input, pos) IN
    /\ pos' = r.pos
    /\ pulls' = pulls + 1
    /\ steps' = steps + 1
    /\ IF r.ok
       THEN /\ current_token' = r.tok
            /\ stack' = nextStack
            /\ ret' = nextRet
            /\ UNCHANGED <<pc, result>>
       ELSE /\ Fail(Err(r.kind, r.arg))
            /\ UNCHANGED current_token
    /\ UNCHANGED <<input, expr, tree, prev>>

\* A code segment that pulls no token.
Local(nextStack, nextRet) ==
    /\ stack' = nextStack
    /\ ret' = nextRet
    /\ steps' = steps + 1
    /\ UNCHANGED <<input, pos, current_token, expr, pc, result, pulls,
                   tree, prev>>

\* ------------------------------------------------------------- calculate
\* Parser::new: the first pull, then calculate calls parse_expr.
ParserNew ==
    /\ pc = "new"
    /\ LET r == NextToken(input, pos) IN
       /\ pos' = r.pos
       /\ pulls' = pulls + 1
       /\ steps' = steps + 1
       /\ IF r.ok
          THEN /\ current_token' = r.tok
               /\ stack' = <<Frame("expr", "start")>>
               /\ pc' = "parse"
               /\ UNCHANGED <<ret, result>>
          ELSE /\ Fail(Err(r.kind, r.arg))
               /\ UNCHANGED current_token
    /\ UNCHANGED <<input, expr, tree, prev>>

\* Mutant: calculate requires end-of-input after the expression.
CalcParsedStrict ==
    /\ pc = "parse" /\ stack = <<>> /\ ret.k # "Nil"
    /\ steps' = steps + 1
    /\ IF current_token.t = "Eof"
       THEN /\ expr' = ret
            /\ ret' = NoExpr
            /\ pc' = "eval"
            /\ UNCHANGED <<stack, result>>
       ELSE /\ Fail(Err("UnexpectedToken", current_token.t))
            /\ UNCHANGED expr
    /\ UNCHANGED <<input, pos, current_token, pulls, tree, prev>>

\* let expr = parser.parse_expr()?
CalcParsed ==
    /\ pc = "parse" /\ stack = <<>> /\ ret.k # "Nil"
    /\ expr' = ret
    /\ ret' = NoExpr
    /\ pc' = "eval"
    /\ steps' = steps + 1
    /\ UNCHANGED <<input, pos, current_token, stack, result, pulls, tree, prev>>

\* let res = expr.eval()?; Ok(res)
CalcEval ==
    /\ pc = "eval"
    /\ result' = Eval(expr)
    /\ pc' = "done"
    /\ steps' = steps + 1
    /\ UNCHANGED <<input, pos, current_token, stack, ret, expr, pulls, tree,
                   prev>>

\* ------------------------------------------------------------- parse_expr
\* let mut node = self.parse_term()?  (the call)
ParseExprTerm ==
    /\ Running("expr", "start")
    /\ Local(Call([Top EXCEPT !.at = "first"], "term"), ret)

\* let mut node = self.parse_term()?  (the binding)
ParseExprFirst ==
    /\ Running("expr", "first") /\ ret.k # "Nil"
    /\ Local(Replace([Top EXCEPT !.at = "loop", !.node = ret]), NoExpr)

\* One iteration of the while loop up to the call of parse_term.
ParseExprOperate ==
    /\ Running("expr", "loop")
    /\ current_token.t \in {"Plus", "Minus"}
    /\ Advance(Call([Top EXCEPT !.at = "rhs", !.op = current_token], "term"),
               ret)

\* Mutant: the operands of the fold are exchanged.
ParseExprFoldExchanged ==
    /\ Running("expr", "rhs") /\ ret.k # "Nil"
    /\ LET k == IF Top.op.t = "Plus" THEN "Add" ELSE "Sub" IN
       Local(Replace([Top EXCEPT !.at = "loop",
                                 !.node = BinE(k, ret, Top.node)]), NoExpr)

\* The rest of the iteration: fold the right-hand side into node.
ParseExprFold ==
    /\ Running("expr", "rhs") /\ ret.k # "Nil"
    /\ LET k == IF Top.op.t = "Plus" THEN "Add" ELSE "Sub" IN
       Local(Replace([Top EXCEPT !.at = "loop",
                                 !.node = BinE(k, Top.node, ret)]), NoExpr)

\* The loop condition fails: Ok(node).
ParseExprReturn ==
    /\ Running("expr", "loop")
    /\ current_token.t \notin {"Plus", "Minus"}
    /\ Local(Pop, Top.node)

\* ------------------------------------------------------------- parse_term
ParseTermFactor ==
    /\ Running("term", "start")
    /\ Local(Call([Top EXCEPT !.at = "first"], "factor"), ret)

ParseTermFirst ==
    /\ Running("term", "first") /\ ret.k # "Nil"
    /\ Local(Replace([Top EXCEPT !.at = "loop", !.node = ret]), NoExpr)

ParseTermOperate ==
    /\ Running("term", "loop")
    /\ current_token.t \in {"Asterisk", "Slash"}
    /\ Advance(Call([Top EXCEPT !.at = "rhs", !.op = current_token], "factor"),
               ret)

ParseTermFold ==
    /\ Running("term", "rhs") /\ ret.k # "Nil"
    /\ LET k == IF Top.op.t = "Asterisk" THEN "Mul" ELSE "Div" IN
       Local(Replace([Top EXCEPT !.at = "loop",
                                 !.node = BinE(k, Top.node, ret)]), NoExpr)

ParseTermReturn ==
    /\ Running("term", "loop")
    /\ current_token.t \notin {"Asterisk", "Slash"}
    /\ Local(Pop, Top.node)

\* ------------------------------------------------------------- parse_factor
\* Mutant: the recursive call is made without the advance.
ParseFactorMinusNoAdvance ==
    /\ Running("factor", "start")
    /\ current_token.t = "Minus"
    /\ Local(Call([Top EXCEPT !.at = "neg"], "factor"), ret)

\* Token::Minus: advance, then the recursive call.
ParseFactorMinus ==
    /\ Running("factor", "start")
    /\ current_token.t = "Minus"
    /\ Advance(Call([Top EXCEPT !.at = "neg"], "factor"), ret)

\* Token::Minus: wrap the returned factor in Neg.
ParseFactorNeg ==
    /\ Running("factor", "neg") /\ ret.k # "Nil"
    /\ Local(Pop, NegE(ret))

\* Token::Int(n): advance, Ok(Expr::Int(n)).
ParseFactorInt ==
    /\ Running("factor", "start")
    /\ current_token.t = "Int"
    /\ Advance(Pop, IntE(current_token.n))

\* Token::LeftParenthesis: advance, then the call of parse_expr.
ParseFactorParen ==
    /\ Running("factor", "start")
    /\ current_token.t = "LeftParenthesis"
    /\ Advance(Call([Top EXCEPT !.at = "paren"], "expr"), ret)

\* Token::LeftParenthesis: the advance after parse_expr, Ok(expr).
ParseFactorClose ==
    /\ Running("factor", "paren") /\ ret.k # "Nil"
    /\ Advance(Pop, ret)

\* Mutant: the error names the token that follows the current one.
ParseFactorUnexpectedNext ==
    /\ Running("factor", "start")
    /\ current_token.t \notin {"Minus", "Int", "LeftParenthesis"}
    /\ Fail(Err("UnexpectedToken", NextToken(input, pos).tok.t))
    /\ steps' = steps + 1
    /\ UNCHANGED <<input, pos, current_token, expr, pulls, tree, prev>>

\* Any other token: bail!("Unexpected token in factor: {:?}").
ParseFactorUnexpected ==
    /\ Running("factor", "start")
    /\ current_token.t \notin {"Minus", "Int", "LeftParenthesis"}
    /\ Fail(Err("UnexpectedToken", current_token.t))
    /\ steps' = steps + 1
    /\ UNCHANGED <<input, pos, current_token, expr, pulls, tree, prev>>

\* ------------------------------------------------------------- inputs
\* The characters of the exhaustively enumerated lines: the space, the six
\* symbols, three digits and one character the tokenizer does not know.
Alphabet == {" ", "+", "-", "*", "/", "(", ")", "0", "1", "9", "x"}

Lines == UNION {[1..n -> Alphabet] : n \in 0..MaxLen}

\* The decimal digits of a natural number (i64's Display, as the tests use
\* it in format!("{}+{}", i64::MAX, i64::MAX)).
DigitChar(d) ==
    CASE d = 0 -> "0" [] d = 1 -> "1" [] d = 2 -> "2" [] d = 3 -> "3"
      [] d = 4 -> "4" [] d = 5 -> "5" [] d = 6 -> "6" [] d = 7 -> "7"
      [] d = 8 -> "8" [] d = 9 -> "9"

RECURSIVE Digits(_)
Digits(n) ==
    IF n < 10 THEN <<DigitChar(n)>>
    ELSE Append(Digits(n \div 10), DigitChar(n % 10))

\* The inputs of the tests of main.rs.
\* "-1+5*(2+1)-3"
ExSimple ==
    <<"-", "1", "+", "5", "*", "(", "2", "+", "1", ")", "-", "3">>
\* "-2+5*((10+5)*3)+8-14/2"
ExDoubleParenthesis ==
    <<"-", "2", "+", "5", "*", "(", "(", "1", "0", "+", "5", ")", "*",
    "3", ")", "+", "8", "-", "1", "4", "/", "2">>
\* "-2+10/(5-5)"
ExDivByZero ==
    <<"-", "2", "+", "1", "0", "/", "(", "5", "-", "5", ")">>
\* "5*(3-5)+1"
ExNegativeResult ==
    <<"5", "*", "(", "3", "-", "5", ")", "+", "1">>
\* "5   *(3-  5) +1"
ExSpaces ==
    <<"5", " ", " ", " ", "*", "(", "3", "-", " ", " ", "5", ")", " ",
    "+", "1">>
\* "5**(3-  5) +1"
ExWrongAsterisk ==
    <<"5", "*", "*", "(", "3", "-", " ", " ", "5", ")", " ", "+", "1">>
\* "5*)(3-  5) +1"
ExWrongParenthesis ==
    <<"5", "*", ")", "(", "3", "-", " ", " ", "5", ")", " ", "+", "1">>
\* "1+((2*3)+2"
ExUnmatchedParenthesis ==
    <<"1", "+", "(", "(", "2", "*", "3", ")", "+", "2">>
\* format!("{}+{}", i64::MAX, i64::MAX)
ExOverflow == Digits(MaxInt) \o <<"+">> \o Digits(MaxInt)
\* format!("{}+1", i64::MIN)
ExMinPlusOne == <<"-">> \o Digits(MaxInt + 1) \o <<"+", "1">>

Examples ==
    {ExSimple, ExDoubleParenthesis, ExDivByZero, ExNegativeResult, ExSpaces,
     ExWrongAsterisk, ExWrongParenthesis, ExUnmatchedParenthesis,
     ExOverflow, ExMinPlusOne, <<"-", "-", "5">>}

\* Expression trees by number of nodes, over the literals LeafValues.
LeafValues == {0, 1, 2, MaxInt}

RECURSIVE TreesOfSize(_)
TreesOfSize(n) ==
    IF n = 1 THEN {IntE(v) : v \in LeafValues}
    ELSE {NegE(t) : t \in TreesOfSize(n - 1)}
         \cup UNION {{BinE(k, a, b) : k \in BinKinds,
                                     a \in TreesOfSize(i),
                                     b \in TreesOfSize(n - 1 - i)}
                     : i \in 1..(n - 2)}

\* MIN / -1 and MIN * -1 need more nodes than MaxNodes.
MinTree == BinE("Sub", NegE(IntE(MaxInt)), IntE(1))
DeepTrees ==
    {BinE("Div", MinTree, NegE(IntE(1))),
     BinE("Mul", MinTree, NegE(IntE(1))),
     BinE("Div", BinE("Add", IntE(MaxInt), IntE(1)),
                 BinE("Div", IntE(1), IntE(0))),
     BinE("Add", BinE("Add", IntE(MaxInt), IntE(1)),
                 BinE("Div", IntE(1), IntE(0)))}

Trees == UNION {TreesOfSize(n) : n \in 1..MaxNodes} \cup DeepTrees

\* Printing a tree as an input line.  Binding strength: + and - 1, * and / 2,
\* unary minus 3, a literal 4.  In the "min" style an operand is put in
\* parentheses only where the usual conventions need them: when it binds
\* less tightly than its place, and a right operand also when it binds
\* equally.  In the "full" style every operation is put in parentheses.
Strength(t) ==
    CASE t.k = "Int" -> 4
      [] t.k = "Neg" -> 3
      [] t.k \in {"Mul", "Div"} -> 2
      [] t.k \in {"Add", "Sub"} -> 1

OpChar(k) ==
    CASE k = "Add" -> "+" [] k = "Sub" -> "-" [] k = "Mul" -> "*" [] k = "Div" -> "/"

Styles == {"min", "full"}

RECURSIVE Show(_, _)
ShowAt(t, least, style) ==
    IF (style = "full" /\ t.k # "Int") \/ Strength(t) < least
    THEN <<"(">> \o Show(t, style) \o <<")">>
    ELSE Show(t, style)

Show(t, style) ==
    CASE t.k = "Int" -> Digits(t.n)
      [] t.k = "Neg" -> <<"-">> \o ShowAt(t.e, 3, style)
      [] OTHER -> ShowAt(t.a, Strength(t), style) \o <<OpChar(t.k)>>
                  \o ShowAt(t.b, Strength(t) + 1, style)

TreeInputs == {[tree |-> t, line |-> Show(t, st)] : t \in Trees, st \in Styles}

\* ------------------------------------------------------------- the system
\* The state on entry to calculate(line).
Enter(line, t, before) ==
    /\ input = line
    /\ tree = t
    /\ prev = before
    /\ pos = 0
    /\ current_token = NoToken
    /\ stack = <<>>
    /\ ret = NoExpr
    /\ expr = NoExpr
    /\ pc = "new"
    /\ result = NoResult
    /\ pulls = 0
    /\ steps = 0

Init ==
    \/ \E line \in Lines \cup Examples : Enter(line, NoExpr, NoResult)
    \/ \E ti \in TreeInputs : Enter(ti.line, ti.tree, NoResult)

\* A space may be put after the first i characters unless that splits a
\* digit run.
BetweenTokens(line, i) ==
    ~(i >= 1 /\ i < Len(line)
      /\ line[i] \in DigitChars /\ line[i + 1] \in DigitChars)

WithSpace(line, i) ==
    SubSeq(line, 1, i) \o <<" ">> \o SubSeq(line, i + 1, Len(line))

\* calculate is called again (as the loop of main and the tests do) with
\* the line just calculated, one space added between two of its tokens.
Respace(i) ==
    /\ pc = "done"
    /\ prev = NoResult
    /\ Len(input) <= MaxLen
    /\ BetweenTokens(input, i)
    /\ input' = WithSpace(input, i)
    /\ prev' = result
    /\ pos' = 0
    /\ current_token' = NoToken
    /\ stack' = <<>>
    /\ ret' = NoExpr
    /\ expr' = NoExpr
    /\ pc' = "new"
    /\ result' = NoResult
    /\ pulls' = 0
    /\ steps' = 0
    /\ UNCHANGED tree

Next ==
    \/ ParserNew
    \/ CalcParsed
    \/ CalcEval
    \/ ParseExprTerm
    \/ ParseExprFirst
    \/ ParseExprOperate
    \/ ParseExprFold
    \/ ParseExprReturn
    \/ ParseTermFactor
    \/ ParseTermFirst
    \/ ParseTermOperate
    \/ ParseTermFold
    \/ ParseTermReturn
    \/ ParseFactorMinus
    \/ ParseFactorNeg
    \/ ParseFactorInt
    \/ ParseFactorParen
    \/ ParseFactorClose
    \/ ParseFactorUnexpected
    \/ \E i \in 0..MaxLen : i <= Len(input) /\ Respace(i)

Spec == Init /\ [][Next]_vars

\* ------------------------------------------------------------- properties
\* The nodes of an expression (none for the missing expression).
RECURSIVE SubExprs(_)
SubExprs(e) ==
    CASE e.k = "Nil" -> {}
      [] e.k = "Int" -> {e}
      [] e.k = "Neg" -> {e} \cup SubExprs(e.e)
      [] OTHER -> {e} \cup SubExprs(e.a) \cup SubExprs(e.b)

\* The quotient of a by b truncated toward zero, from its defining
\* property: a = q * b + r with |r| < |b| and r zero or of the sign of a.
TruncatedQuotient(a, b) ==
    CHOOSE q \in -Abs(a)..Abs(a) :
        LET r == a - q * b IN
        Abs(r) < Abs(b) /\ (r = 0 \/ (r < 0) = (a < 0))

\* The exact result of an operation on integers.
Exact(k, a, b) ==
    CASE k = "Add" -> a + b
      [] k = "Sub" -> a - b
      [] k = "Mul" -> a * b
      [] k = "Div" -> TruncatedQuotient(a, b)

\* Standard integer arithmetic on a tree: its value, defined when every
\* intermediate value is in range and no divisor is zero.
Undefined == [def |-> FALSE, v |-> 0]
Value(v) == IF InRange(v) THEN [def |-> TRUE, v |-> v] ELSE Undefined

RECURSIVE Arithmetic(_)
Arithmetic(t) ==
    CASE t.k = "Int" -> Value(t.n)
      [] t.k = "Neg" ->
           LET x == Arithmetic(t.e) IN
           IF x.def THEN Value(-x.v) ELSE Undefined
      [] OTHER ->
           LET x == Arithmetic(t.a)
               y == Arithmetic(t.b)
           IN  IF x.def /\ y.def /\ ~(t.k = "Div" /\ y.v = 0)
               THEN Value(Exact(t.k, x.v, y.v))
               ELSE Undefined

Returned(line) == pc = "done" /\ input = line

\* C1: a well-formed input (a printed expression tree, in either style of
\* parenthesization) whose intermediate values fit and whose divisors are
\* non-zero evaluates to its value in standard integer arithmetic; so do the
\* inputs of the tests.
C1_StandardArithmetic ==
    /\ (pc = "done" /\ tree.k # "Nil" /\ Arithmetic(tree).def)
           => result = Ok(Arithmetic(tree).v)
    /\ Returned(ExSimple) => result = Ok(11)
    /\ Returned(ExDoubleParenthesis) => result = Ok(224)
    /\ Returned(<<"-", "-", "5">>) => result = Ok(5)

\* "1-(2-MAX)": a parenthesized right operand of equal precedence was
\* calculated.
C1_Witness ==
    /\ pc = "done"
    /\ tree = BinE("Sub", IntE(1), BinE("Sub", IntE(2), IntE(MaxInt)))
    /\ input = <<"1", "-", "(", "2", "-">> \o Digits(MaxInt) \o <<")">>
    /\ result = Ok(MaxInt - 1)

\* The number of "(" still open at the end of the line, a ")" closing the
\* nearest open one.
RECURSIVE OpenAfter(_, _)
OpenAfter(line, i) ==
    IF i = 0 THEN 0
    ELSE LET d == OpenAfter(line, i - 1) IN
         CASE line[i] = "(" -> d + 1
           [] line[i] = ")" -> IF d > 0 THEN d - 1 ELSE 0
           [] OTHER -> d

Unmatched(line) == OpenAfter(line, Len(line)) > 0

\* C2: an input with an unmatched "(" never returns an integer.
C2_UnmatchedParenthesisFails ==
    (pc = "done" /\ Unmatched(input)) => ~result.ok

\* C3: a space added between two tokens of a line leaves the outcome of
\* calculate unchanged, result or error; the spaced test input evaluates like
\* the unspaced one.
C3_SpacesInsignificant ==
    /\ (pc = "done" /\ prev # NoResult) => result = prev
    /\ Returned(ExNegativeResult) => result = Ok(-9)
    /\ Returned(ExSpaces) => result = Ok(-9)

\* "1 +1" was calculated after "1+1".
C3_Witness ==
    /\ pc = "done"
    /\ input = <<"1", " ", "+", "1">>
    /\ prev = Ok(2)
    /\ result = Ok(2)

DivisionByZero == Err("DivisionByZero", "")

\* C4: a division whose divisor evaluates to zero fails with DivisionByZero
\* whatever the dividend does, and the error passes unchanged through every
\* enclosing node that reaches it, up to calculate.
C4_DivisionByZero ==
    /\ \A e \in SubExprs(expr) :
         /\ (e.k = "Div" /\ Eval(e.b) = Ok(0)) => Eval(e) = DivisionByZero
         /\ (e.k = "Neg" /\ Eval(e.e) = DivisionByZero)
                => Eval(e) = DivisionByZero
         /\ (e.k \in {"Add", "Sub", "Mul"} /\ Eval(e.a) = DivisionByZero)
                => Eval(e) = DivisionByZero
         /\ (e.k \in {"Add", "Sub", "Mul"} /\ Eval(e.a).ok
             /\ Eval(e.b) = DivisionByZero)
                => Eval(e) = DivisionByZero
         /\ (e.k = "Div" /\ Eval(e.b) = DivisionByZero)
                => Eval(e) = DivisionByZero
         /\ (e.k = "Div" /\ Eval(e.b).ok /\ Eval(e.b).val # 0
             /\ Eval(e.a) = DivisionByZero)
                => Eval(e) = DivisionByZero
    /\ (pc = "done" /\ expr.k # "Nil" /\ Eval(expr) = DivisionByZero)
           => result = DivisionByZero
    /\ Returned(ExDivByZero) => result = DivisionByZero

\* (MAX+1)/0: the dividend overflows, the divisor is zero.
C4_Witness ==
    /\ pc = "done"
    /\ expr = BinE("Div", BinE("Add", IntE(MaxInt), IntE(1)), IntE(0))
    /\ result = DivisionByZero

OperationName(k) ==
    CASE k = "Add" -> "addition"
      [] k = "Sub" -> "substraction"
      [] k = "Mul" -> "multiplication"
      [] k = "Div" -> "division"

Checked(exact, what) ==
    IF InRange(exact) THEN Ok(exact) ELSE Err("Overflow", what)

\* C5: a node whose children evaluate successfully (and whose divisor is not
\* zero) returns the exact result when it is in range and fails with
\* Overflow naming the operation otherwise: negation only for the minimum,
\* division only for minimum / -1.  MAX + MAX is an overflow on addition.
C5_NeverWraps ==
    /\ \A e \in SubExprs(expr) :
         /\ (e.k = "Neg" /\ Eval(e.e).ok) =>
                /\ Eval(e) = Checked(-Eval(e.e).val, "negation")
                /\ ~Eval(e).ok => Eval(e.e).val = MinInt
         /\ (e.k \in BinKinds /\ Eval(e.a).ok /\ Eval(e.b).ok
             /\ ~(e.k = "Div" /\ Eval(e.b).val = 0)) =>
                /\ Eval(e) = Checked(Exact(e.k, Eval(e.a).val, Eval(e.b).val),
                                     OperationName(e.k))
                /\ (e.k = "Div" /\ ~Eval(e).ok)
                       => (Eval(e.a).val = MinInt /\ Eval(e.b).val = -1)
    /\ (pc = "done" /\ expr.k # "Nil") => result = Eval(expr)
    /\ Returned(ExOverflow) => result = Err("Overflow", "addition")

\* (-MAX-1)/-1 was calculated.
C5_Witness ==
    /\ pc = "done"
    /\ expr = BinE("Div", MinTree, NegE(IntE(1)))
    /\ result = Err("Overflow", "division")

\* C6: parse_factor entered on a token that starts no factor fails with
\* UnexpectedToken naming that token, and that is what calculate returns.
C6_UnexpectedTokenNamed ==
    /\ [][(Running("factor", "start")
           /\ current_token.t \notin {"Int", "Minus", "LeftParenthesis"})
          => (pc' = "done"
              /\ result' = Err("UnexpectedToken", current_token.t))]_vars
    /\ [](Returned(ExWrongAsterisk)
              => result = Err("UnexpectedToken", "Asterisk"))
    /\ [](Returned(ExWrongParenthesis)
              => result = Err("UnexpectedToken", "RightParenthesis"))

C6_Witness ==
    /\ Returned(ExWrongParenthesis)
    /\ current_token.t = "RightParenthesis"
    /\ result = Err("UnexpectedToken", "RightParenthesis")

\* The digit run that ends at the cursor.
RECURSIVE RunStart(_, _)
RunStart(s, i) ==
    IF i > 1 /\ s[i - 1] \in DigitChars THEN RunStart(s, i - 1) ELSE i

AtRunEnd ==
    /\ pos >= 1
    /\ input[pos] \in DigitChars
    /\ pos = Len(input) \/ input[pos + 1] \notin DigitChars

RECURSIVE DecimalValue(_)
DecimalValue(run) ==
    IF run = <<>> THEN 0
    ELSE 10 * DecimalValue(SubSeq(run, 1, Len(run) - 1))
         + DigitValue(run[Len(run)])

LastRun == SubSeq(input, RunStart(input, pos), pos)

\* C7: an integer token is the value of the maximal digit run that ends at
\* the cursor, unsigned and at most MAX; calculate fails with the
\* number-too-large error exactly when the run it has just read exceeds
\* MAX; the minimum value spelled as a literal fails so, before any
\* expression is built.
C7_DigitRuns ==
    /\ (pc = "parse" /\ current_token.t = "Int")
           => /\ AtRunEnd
              /\ current_token.n = DecimalValue(LastRun)
              /\ current_token.n \in 0..MaxInt
    /\ pc = "done"
           => ((result = Err("NumberTooLarge", ""))
                   <=> (AtRunEnd /\ DecimalValue(LastRun) > MaxInt))
    /\ Returned(ExMinPlusOne)
           => (result = Err("NumberTooLarge", "") /\ expr = NoExpr)

C7_Witness ==
    /\ Returned(ExMinPlusOne)
    /\ result = Err("NumberTooLarge", "")
    /\ pos = Len(ExMinPlusOne) - 2
    /\ pulls = 2

\* C8 as stated: for every binary node, when both operands fail the error
\* is the left operand's.
C8_LeftOperandFirst ==
    \A e \in SubExprs(expr) :
        (e.k \in BinKinds /\ ~Eval(e.a).ok /\ ~Eval(e.b).ok)
            => Eval(e) = Eval(e.a)

\* C8 amended: for addition, subtraction and multiplication the error is
\* the left operand's; for division it is the right operand's (the divisor's).
C8_OperandOrder ==
    \A e \in SubExprs(expr) :
        (e.k \in BinKinds /\ ~Eval(e.a).ok /\ ~Eval(e.b).ok)
            => Eval(e) = IF e.k = "Div" THEN Eval(e.b) ELSE Eval(e.a)

\* (MAX+1)+(1/0) was calculated.
C8_Witness ==
    /\ pc = "done"
    /\ expr = BinE("Add", BinE("Add", IntE(MaxInt), IntE(1)),
                          BinE("Div", IntE(1), IntE(0)))
    /\ result = Err("Overflow", "addition")

\* C9: when the top-level parse_expr returns on a token that is not
\* end-of-input, calculate evaluates the expression parsed so far and
\* returns that; no further token is pulled and no error is raised for it.
C9_TrailingTokensIgnored ==
    /\ [][(pc = "parse" /\ stack = <<>> /\ ret.k # "Nil"
           /\ current_token.t # "Eof")
          => (pc' = "eval" /\ expr' = ret /\ pos' = pos /\ pulls' = pulls
              /\ current_token' = current_token)]_vars
    /\ [][(pc = "eval" /\ current_token.t # "Eof")
          => (pc' = "done" /\ result' = Eval(expr) /\ pos' = pos
              /\ pulls' = pulls /\ current_token' = current_token)]_vars

\* "1)x" returned 1 and the x was never read.
C9_Witness ==
    /\ Returned(<<"1", ")", "x">>)
    /\ result = Ok(1)
    /\ current_token.t = "RightParenthesis"
    /\ pos = 2

\* C10: calculate terminates.  It is never stuck before it returns, it runs
\* at most 8 * length + 4 code segments and pulls at most 2 * length + 1
\* tokens; the cursor only moves forward; a pull consumes a character or
\* returns end-of-input without moving, and at the end of the input it
\* returns end-of-input; a loop iteration and a call made by parse_factor
\* first consume the current token, which is not end-of-input.
C10_Terminates ==
    /\ [](pc # "done" => ENABLED Next)
    /\ [](steps <= 8 * Len(input) + 4)
    /\ [](pulls <= 2 * Len(input) + 1)
    /\ [](pos <= Len(input))
    /\ [][pc # "done" =>
            /\ steps' = steps + 1
            /\ pos' >= pos
            /\ pulls' \in {pulls, pulls + 1}
            /\ pulls' = pulls => pos' = pos
            /\ pulls' = pulls + 1 =>
                 \/ pos' > pos
                 \/ (pos' = pos /\ pos = Len(input) /\ pc' # "done"
                     /\ current_token'.t = "Eof")
            /\ (pulls' = pulls + 1 /\ pos = Len(input)) => pos' = pos
            /\ (pc = "parse" /\ Len(stack') = Len(stack) + 1
                /\ (Top.fn = "factor" \/ Top.at = "loop"))
                   => (pulls' = pulls + 1 /\ current_token.t # "Eof")
         ]_vars

\* "((1" returned after six pulls, three of them at the end of the input.
C10_Witness ==
    /\ Returned(<<"(", "(", "1">>)
    /\ pulls = 6
    /\ result = Ok(1)

=============================================================================
